---- MODULE Spec2Model ----
(***************************************************************************)
(* Bin-collection calendar feed (src/app.py): the schedule-text            *)
(* classifier parse_interval_days, the event identifier make_uid and the   *)
(* calendar builder build_calendar, with the wall clock it reads.          *)
(*                                                                         *)
(* Python values are tagged records: [t |-> "none"], [t |-> "int", v],     *)
(* [t |-> "str", v] with v a sequence of one-character strings.  A date    *)
(* is its proleptic Gregorian ordinal (date.toordinal()).                  *)
(***************************************************************************)
EXTENDS Integers, Sequences, FiniteSets, TLC

VARIABLES
    clock,             \* the day the wall clock shows (date.today() reads it)
    services,          \* the list handed to build_calendar
    pc,                \* position: "idle", "for", "while", "emit", "done", "raised", "returned"
    today,             \* build_calendar local, line 59
    end_date,          \* build_calendar local, line 60
    idx,               \* index of the record the for loop of line 62 is at
    name,              \* build_calendar local, line 63
    schedule_desc,     \* build_calendar local, line 65
    interval,          \* build_calendar local, line 75
    current,           \* build_calendar local, line 79
    collection_dates,  \* build_calendar local, line 78
    events,            \* the components added to cal, line 106
    runs,              \* number of build_calendar invocations started
    prev,              \* today and events of the previous completed invocation
    arg,               \* argument of a direct call of a pure function
    ret                \* its result

vars == <<clock, services, pc, today, end_date, idx, name, schedule_desc,
          interval, current, collection_dates, events, runs, prev, arg, ret>>

buildVars == <<services, pc, today, end_date, idx, name, schedule_desc,
               interval, current, collection_dates, events, runs, prev>>

-----------------------------------------------------------------------------
(* Python values *)

PyNone == [t |-> "none"]

PyInt(n) == [t |-> "int", v |-> n]

PyStr(s) == [t |-> "str", v |-> s]

PyExc(e) == [t |-> "exc", v |-> e]

Unset == [t |-> "unset"]

\* Python truthiness of a value (used by "not x")
Truthy(x) ==
    CASE x.t = "none" -> FALSE
      [] x.t = "str"  -> x.v # <<>>
      [] x.t = "int"  -> x.v # 0
      [] OTHER        -> TRUE

-----------------------------------------------------------------------------
(* Strings as sequences of characters *)

UpperLetters ==
    <<"A","B","C","D","E","F","G","H","I","J","K","L","M",
      "N","O","P","Q","R","S","T","U","V","W","X","Y","Z">>

LowerLetters ==
    <<"a","b","c","d","e","f","g","h","i","j","k","l","m",
      "n","o","p","q","r","s","t","u","v","w","x","y","z">>

Digits == <<"0","1","2","3","4","5","6","7","8","9">>

LowerChar(c) ==
    IF \E k \in DOMAIN UpperLetters : UpperLetters[k] = c
    THEN LowerLetters[CHOOSE k \in DOMAIN UpperLetters : UpperLetters[k] = c]
    ELSE c

\* str.lower()
Lower(s) == [k \in DOMAIN s |-> LowerChar(s[k])]

\* the Python test "sub in s"
Contains(s, sub) ==
    \E k \in 0..(Len(s) - Len(sub)) : SubSeq(s, k + 1, k + Len(sub)) = sub

IsSpace(c) == c \in {" ", "\t", "\n"}

IsDigit(c) == \E k \in DOMAIN Digits : Digits[k] = c

DigitValue(c) == (CHOOSE k \in DOMAIN Digits : Digits[k] = c) - 1

\* int() of a string of decimal digits
RECURSIVE DigitsToInt(_)
DigitsToInt(s) ==
    IF s = <<>> THEN 0
    ELSE 10 * DigitsToInt(SubSeq(s, 1, Len(s) - 1)) + DigitValue(s[Len(s)])

\* first index >= j at which s leaves the run of spaces (Len(s)+1 at the end)
SpaceRunEnd(s, j) ==
    CHOOSE k \in j..(Len(s) + 1) :
        /\ \A q \in j..(k - 1) : IsSpace(s[q])
        /\ (k = Len(s) + 1 \/ ~IsSpace(s[k]))

DigitRunEnd(s, j) ==
    CHOOSE k \in j..(Len(s) + 1) :
        /\ \A q \in j..(k - 1) : IsDigit(s[q])
        /\ (k = Len(s) + 1 \/ ~IsDigit(s[k]))

StrEvery == <<"e","v","e","r","y">>
StrWeek == <<"w","e","e","k">>
StrWeekly == <<"w","e","e","k","l","y">>
StrEveryWeek == <<"e","v","e","r","y"," ","w","e","e","k">>
StrFortnight == <<"f","o","r","t","n","i","g","h","t">>
StrEvery2Week == <<"e","v","e","r","y"," ","2"," ","w","e","e","k">>
StrEveryOtherWeek ==
    <<"e","v","e","r","y"," ","o","t","h","e","r"," ","w","e","e","k">>

\* the regular expression every\s+(\d+)\s+week matched at position i of s:
\* the three runs are greedy and each is followed by a character outside
\* its class, so the match at a position is unique
ReMatchAt(s, i) ==
    LET a == i + Len(StrEvery)
        b == SpaceRunEnd(s, a)
        c == DigitRunEnd(s, b)
        d == SpaceRunEnd(s, c)
    IN  /\ i + Len(StrEvery) - 1 <= Len(s)
        /\ SubSeq(s, i, a - 1) = StrEvery
        /\ b > a
        /\ c > b
        /\ d > c
        /\ d + Len(StrWeek) - 1 <= Len(s)
        /\ SubSeq(s, d, d + Len(StrWeek) - 1) = StrWeek

\* re.search(r"every\s+(\d+)\s+week", s): whether there is a match
ReSearch(s) == \E i \in 1..Len(s) : ReMatchAt(s, i)

\* m.group(1) of the leftmost match
ReGroup1(s) ==
    LET i == CHOOSE p \in 1..Len(s) :
                 ReMatchAt(s, p) /\ \A q \in 1..(p - 1) : ~ReMatchAt(s, q)
        b == SpaceRunEnd(s, i + Len(StrEvery))
        c == DigitRunEnd(s, b)
    IN  SubSeq(s, b, c - 1)

-----------------------------------------------------------------------------
(* parse_interval_days, lines 29-43 *)

\* line 35
fortnight_rule(desc) ==
    \/ Contains(desc, StrFortnight)
    \/ Contains(desc, StrEvery2Week)
    \/ Contains(desc, StrEveryOtherWeek)

\* line 37
week_rule(desc) ==
    \/ Contains(desc, StrEveryWeek)
    \/ Contains(desc, StrWeekly)
    \/ Contains(desc, StrWeek)

\* the rules in another order: the generic week rule before the fortnight rule
parse_interval_days_week_first(schedule_description) ==
    IF schedule_description.t # "str" THEN PyExc("AttributeError")
    ELSE LET desc == Lower(schedule_description.v)
         IN  IF week_rule(desc) THEN PyInt(7)
             ELSE IF fortnight_rule(desc) THEN PyInt(14)
             ELSE IF ReSearch(desc) THEN PyInt(DigitsToInt(ReGroup1(desc)) * 7)
             ELSE PyNone

\* the rules in another order: the "every N weeks" pattern before the week rule
parse_interval_days_pattern_first(schedule_description) ==
    IF schedule_description.t # "str" THEN PyExc("AttributeError")
    ELSE LET desc == Lower(schedule_description.v)
         IN  IF fortnight_rule(desc) THEN PyInt(14)
             ELSE IF ReSearch(desc) THEN PyInt(DigitsToInt(ReGroup1(desc)) * 7)
             ELSE IF week_rule(desc) THEN PyInt(7)
             ELSE PyNone

\* the result of parse_interval_days: an int, None, or the AttributeError
\* that .lower() raises on a value that is not a string
parse_interval_days(schedule_description) ==
    IF schedule_description.t # "str" THEN PyExc("AttributeError")
    ELSE LET desc == Lower(schedule_description.v)
         IN  IF fortnight_rule(desc) THEN PyInt(14)
             ELSE IF week_rule(desc) THEN PyInt(7)
             ELSE IF ReSearch(desc) THEN PyInt(DigitsToInt(ReGroup1(desc)) * 7)
             ELSE PyNone

-----------------------------------------------------------------------------
(* Dates: datetime.date as its proleptic Gregorian ordinal *)

PyDate(o) == [t |-> "date", v |-> o]

\* ordinal of 1970-01-01, the origin of the day count below
EpochOrdinal == 719163

IsLeap(y) == (y % 4 = 0) /\ ((y % 100 # 0) \/ (y % 400 = 0))

DaysInMonth(y, m) ==
    IF m = 2 THEN (IF IsLeap(y) THEN 29 ELSE 28)
    ELSE IF m \in {4, 6, 9, 11} THEN 30 ELSE 31

\* date(y, m, d).toordinal()
OrdinalOf(y, m, d) ==
    LET yy  == IF m <= 2 THEN y - 1 ELSE y
        era == yy \div 400
        yoe == yy - era * 400
        mp  == IF m > 2 THEN m - 3 ELSE m + 9
        doy == (153 * mp + 2) \div 5 + d - 1
        doe == yoe * 365 + yoe \div 4 - yoe \div 100 + doy
    IN  era * 146097 + doe - 719468 + EpochOrdinal

\* date.fromordinal(o) as <<year, month, day>>
CivilOf(o) ==
    LET z   == o - EpochOrdinal + 719468
        era == z \div 146097
        doe == z - era * 146097
        yoe == (doe - doe \div 1460 + doe \div 36524 - doe \div 146096) \div 365
        doy == doe - (365 * yoe + yoe \div 4 - yoe \div 100)
        mp  == (5 * doy + 2) \div 153
        d   == doy - (153 * mp + 2) \div 5 + 1
        m   == IF mp < 10 THEN mp + 3 ELSE mp - 9
        y   == yoe + era * 400
    IN  <<IF m <= 2 THEN y + 1 ELSE y, m, d>>

\* the decimal digits of n, zero-padded to width w
RECURSIVE Pad(_, _)
Pad(n, w) ==
    IF w = 0 THEN <<>> ELSE Append(Pad(n \div 10, w - 1), Digits[(n % 10) + 1])

\* str(n) of a natural number
RECURSIVE IntToStr(_)
IntToStr(n) ==
    IF n < 10 THEN <<Digits[n + 1]>>
    ELSE Append(IntToStr(n \div 10), Digits[(n % 10) + 1])

\* date.isoformat(): YYYY-MM-DD
isoformat(o) ==
    LET c == CivilOf(o)
    IN  Pad(c[1], 4) \o <<"-">> \o Pad(c[2], 2) \o <<"-">> \o Pad(c[3], 2)

AllDigits(s) == \A k \in DOMAIN s : IsDigit(s[k])

\* dateparse(x).date(), line 71, on the date-time strings the upstream
\* service sends, "YYYY-MM-DD" optionally followed by "T" and a time of day
\* that .date() drops.  A value that is not a string raises TypeError; a
\* string that is no such date raises ValueError (ParserError).
dateparse_date(x) ==
    IF x.t # "str" THEN PyExc("TypeError")
    ELSE LET s == x.v
             shaped ==
                 /\ Len(s) >= 10
                 /\ AllDigits(SubSeq(s, 1, 4))
                 /\ s[5] = "-"
                 /\ AllDigits(SubSeq(s, 6, 7))
                 /\ s[8] = "-"
                 /\ AllDigits(SubSeq(s, 9, 10))
                 /\ (Len(s) = 10 \/ s[11] = "T")
             y == DigitsToInt(SubSeq(s, 1, 4))
             m == DigitsToInt(SubSeq(s, 6, 7))
             d == DigitsToInt(SubSeq(s, 9, 10))
         IN  IF shaped /\ y >= 1 /\ m \in 1..12 /\ d \in 1..DaysInMonth(y, m)
             THEN PyDate(OrdinalOf(y, m, d))
             ELSE PyExc("ValueError")

-----------------------------------------------------------------------------
(* make_uid, lines 46-48 *)

StrNone == <<"N","o","n","e">>
StrUnknown == <<"U","n","k","n","o","w","n">>
StrNamespace == <<"@","s","o","u","t","h","g","l","o","s","-","b","i","n","s">>

\* how an f-string renders a value
FStr(x) ==
    CASE x.t = "str"  -> x.v
      [] x.t = "none" -> StrNone
      [] x.t = "int"  -> IntToStr(x.v)

\* a key that leaves the date out
uid_key_no_date(service, event_date) ==
    FStr(service) \o <<"-">> \o StrNamespace

\* line 47: the string that is hashed
uid_key(service, event_date) ==
    FStr(service) \o <<"-">> \o isoformat(event_date) \o StrNamespace

\* line 48: md5 is not computed; the digest is represented by the string it
\* is the digest of
make_uid(service, event_date) ==
    [md5 |-> uid_key(service, event_date), tail |-> "@bins"]

-----------------------------------------------------------------------------
(* build_calendar, lines 51-108 *)

\* line 26
MONTHS_AHEAD == 6

\* dict.get(key, default): a service record is a function from the keys it
\* holds to their values
Get(service, key, default) ==
    IF key \in DOMAIN service THEN service[key] ELSE default

\* line 80 with the horizon end excluded
while_cond_strict(cur, end) == cur < end

\* line 80: the condition of the while loop
while_cond(cur, end) == cur <= end

\* line 81 without the lower limit
keep_cond_all(cur, t) == TRUE

\* line 81 reading the clock again instead of the value stored at line 59
keep_cond_clock(cur, t) == cur >= clock

\* line 81: whether the current date is kept
keep_cond(cur, t) == cur >= t

\* lines 67-73: whether the record is skipped for its collection date
date_unusable(next_collection_str) ==
    \/ ~Truthy(next_collection_str)
    \/ dateparse_date(next_collection_str).t = "exc"

\* lines 88-104: the event of one collection date, with its alarm
Event(nm, cdate) ==
    [service |-> nm,
     dtstart |-> cdate,
     dtend   |-> cdate + 1,
     uid     |-> make_uid(nm, cdate),
     trigger_hours |-> 0 - 17]

\* lines 52-60: entry; the clock is read once
build_calendar_enter ==
    /\ pc = "idle"
    /\ today' = clock
    /\ end_date' = clock + MONTHS_AHEAD * 30
    /\ events' = <<>>
    /\ idx' = 1
    /\ runs' = runs + 1
    /\ pc' = "for"
    /\ UNCHANGED <<clock, services, name, schedule_desc, interval, current,
                   collection_dates, prev, arg, ret>>

\* lines 63-73 where a bad date ends the whole loop instead of the iteration
for_skip_break ==
    /\ pc = "for"
    /\ idx <= Len(services)
    /\ date_unusable(Get(services[idx], "hso_nextcollection", PyNone))
    /\ name' = Get(services[idx], "hso_servicename", PyStr(StrUnknown))
    /\ schedule_desc' = Get(services[idx], "hso_scheduledescription", PyStr(<<>>))
    /\ idx' = Len(services) + 1
    /\ UNCHANGED <<clock, services, pc, today, end_date, interval, current,
                   collection_dates, events, runs, prev, arg, ret>>

\* lines 63-73: a record whose collection date is missing, empty or does
\* not parse is passed over
for_skip ==
    /\ pc = "for"
    /\ idx <= Len(services)
    /\ date_unusable(Get(services[idx], "hso_nextcollection", PyNone))
    /\ name' = Get(services[idx], "hso_servicename", PyStr(StrUnknown))
    /\ schedule_desc' = Get(services[idx], "hso_scheduledescription", PyStr(<<>>))
    /\ idx' = idx + 1
    /\ UNCHANGED <<clock, services, pc, today, end_date, interval, current,
                   collection_dates, events, runs, prev, arg, ret>>

\* lines 63-75: parse_interval_days raises; nothing in build_calendar
\* catches it
for_raise ==
    /\ pc = "for"
    /\ idx <= Len(services)
    /\ ~date_unusable(Get(services[idx], "hso_nextcollection", PyNone))
    /\ LET sd == Get(services[idx], "hso_scheduledescription", PyStr(<<>>))
       IN  /\ parse_interval_days(sd).t = "exc"
           /\ schedule_desc' = sd
    /\ name' = Get(services[idx], "hso_servicename", PyStr(StrUnknown))
    /\ pc' = "raised"
    /\ UNCHANGED <<clock, services, today, end_date, idx, interval, current,
                   collection_dates, events, runs, prev, arg, ret>>

\* lines 63-79: the record has a date; the loop over its dates is set up
for_expand ==
    /\ pc = "for"
    /\ idx <= Len(services)
    /\ ~date_unusable(Get(services[idx], "hso_nextcollection", PyNone))
    /\ LET sd == Get(services[idx], "hso_scheduledescription", PyStr(<<>>))
       IN  /\ parse_interval_days(sd).t # "exc"
           /\ schedule_desc' = sd
           /\ interval' = parse_interval_days(sd)
    /\ name' = Get(services[idx], "hso_servicename", PyStr(StrUnknown))
    /\ current' = dateparse_date(Get(services[idx], "hso_nextcollection", PyNone)).v
    /\ collection_dates' = <<>>
    /\ pc' = "while"
    /\ UNCHANGED <<clock, services, today, end_date, idx, events, runs, prev,
                   arg, ret>>

\* lines 80-85: one test of the while condition and, if it holds, one
\* iteration of the body
while_step ==
    /\ pc = "while"
    /\ IF while_cond(current, end_date)
       THEN /\ collection_dates' =
                   IF keep_cond(current, today)
                   THEN Append(collection_dates, current)
                   ELSE collection_dates
            /\ IF interval.t = "none"
               THEN /\ pc' = "emit"
                    /\ current' = current
               ELSE /\ pc' = "while"
                    /\ current' = current + interval.v
       ELSE /\ pc' = "emit"
            /\ UNCHANGED <<collection_dates, current>>
    /\ UNCHANGED <<clock, services, today, end_date, idx, name, schedule_desc,
                   interval, events, runs, prev, arg, ret>>

\* lines 87-106: one event per collected date is added to the calendar
emit ==
    /\ pc = "emit"
    /\ events' = events \o [k \in DOMAIN collection_dates |->
                               Event(name, collection_dates[k])]
    /\ idx' = idx + 1
    /\ pc' = "for"
    /\ UNCHANGED <<clock, services, today, end_date, name, schedule_desc,
                   interval, current, collection_dates, runs, prev, arg, ret>>

\* line 108: the loop over the services is exhausted
for_exit ==
    /\ pc = "for"
    /\ idx > Len(services)
    /\ pc' = "done"
    /\ UNCHANGED <<clock, services, today, end_date, idx, name, schedule_desc,
                   interval, current, collection_dates, events, runs, prev,
                   arg, ret>>

-----------------------------------------------------------------------------
(* The environment: the wall clock and the requests, lines 111-121 *)

\* the day the clock shows at the start (the ordinal of 2024-01-01)
Day0 == 738886

MaxTicks == 1
MaxRuns == 2
MaxServices == 2
MaxBack == 15
MaxAhead == 2
MaxTokens == 4
MaxNameLen == 2

\* midnight passes; date.today() of line 59 reads this clock
Tick ==
    /\ clock < Day0 + MaxTicks
    /\ clock' = clock + 1
    /\ UNCHANGED <<services, pc, today, end_date, idx, name, schedule_desc,
                   interval, current, collection_dates, events, runs, prev,
                   arg, ret>>

\* lines 111-121: the next request calls build_calendar again; the upstream
\* payload is the same, the previous response is remembered for comparison
next_request ==
    /\ pc = "done"
    /\ runs < MaxRuns
    /\ prev' = [today |-> today, events |-> events]
    /\ pc' = "idle"
    /\ UNCHANGED <<clock, services, today, end_date, idx, name, schedule_desc,
                   interval, current, collection_dates, events, runs, arg, ret>>

-----------------------------------------------------------------------------
(* Inputs *)

StrTime == <<"T","0","7",":","0","0",":","0","0">>

\* a collection date as the upstream service writes it
IsoDateTime(o) == PyStr(isoformat(o) \o StrTime)

DescWeekly == PyStr(<<"W","e","e","k","l","y">>)
DescFortnightly == PyStr(<<"F","o","r","t","n","i","g","h","t","l","y">>)
DescEvery3Weeks == PyStr(<<"E","v","e","r","y"," ","3"," ","w","e","e","k","s">>)
DescEvery0Weeks == PyStr(<<"e","v","e","r","y"," ","0"," ","w","e","e","k","s">>)
DescEvery2Weeks == PyStr(<<"E","v","e","r","y"," ","2"," ","w","e","e","k","s">>)
DescMonthly == PyStr(<<"M","o","n","t","h","l","y">>)
DescEmpty == PyStr(<<>>)

NameR == PyStr(<<"R">>)
NameG == PyStr(<<"G">>)

Rec(nm, d, sd) ==
    [hso_servicename |-> nm, hso_nextcollection |-> d,
     hso_scheduledescription |-> sd]

RecWeekly == Rec(NameR, IsoDateTime(Day0), DescWeekly)
RecFortnightly == Rec(NameR, IsoDateTime(Day0 - 7), DescFortnightly)
RecBare == [hso_nextcollection |-> PyStr(isoformat(Day0))]
RecGarbageDate == Rec(NameG, PyStr(<<"s","o","o","n">>), PyNone)
RecEmptyDate == Rec(NameG, DescEmpty, DescWeekly)
RecNumberDate == Rec(NameG, PyInt(20240101), DescWeekly)
RecNoDate == [hso_scheduledescription |-> DescWeekly]
RecNullDesc == Rec(PyNone, IsoDateTime(Day0 + 3), PyNone)

Records ==
    {RecWeekly, RecFortnightly, RecBare, RecGarbageDate, RecEmptyDate,
     RecNumberDate, RecNoDate, RecNullDesc}

ServiceLists == UNION {[1..n -> Records] : n \in 0..MaxServices}

Anchors == (Day0 - MaxBack)..(Day0 + MONTHS_AHEAD * 30 + MaxAhead)

ExpandDescs ==
    {DescWeekly, DescFortnightly, DescEvery3Weeks, DescEvery0Weeks,
     DescEvery2Weeks, DescMonthly, DescEmpty}

ExpandRecords ==
    {Rec(NameR, IsoDateTime(a), sd) : a \in Anchors, sd \in ExpandDescs}
        \cup {RecGarbageDate, RecNullDesc}

Tokens ==
    {<<"E","v","e","r","y"," ">>, <<" ">>, <<"0"," ">>, <<"2">>, <<"3"," ">>,
     <<"w","e","e","k","s">>, <<"W","e","e","k","l","y">>,
     <<"F","o","r","t","N","i","g","h","t","l","y">>,
     <<"o","t","h","e","r"," ">>, <<"m","o","n","t","h","l","y">>}

RECURSIVE Flatten(_)
Flatten(ts) == IF ts = <<>> THEN <<>> ELSE Head(ts) \o Flatten(Tail(ts))

Descriptions ==
    {Flatten(ts) : ts \in UNION {[1..n -> Tokens] : n \in 0..MaxTokens}}

NameChars == {"R", "-", "1"}

Names == UNION {[1..n -> NameChars] : n \in 0..MaxNameLen}

UidDates == {Day0, Day0 + 1, Day0 + 7, Day0 + 31, Day0 + 366}

UidArgs == {<<PyStr(n), d>> : n \in Names, d \in UidDates}

-----------------------------------------------------------------------------
(* Direct calls of the pure functions *)

\* lines 29-43 called on arg
call_parse_interval_days ==
    /\ pc = "idle"
    /\ ret' = parse_interval_days(arg)
    /\ pc' = "returned"
    /\ UNCHANGED <<clock, services, today, end_date, idx, name,
                   schedule_desc, interval, current, collection_dates, events,
                   runs, prev, arg>>

\* lines 46-48 called on each of the two pairs of arg
call_make_uid ==
    /\ pc = "idle"
    /\ ret' = [k \in DOMAIN arg |-> make_uid(arg[k][1], arg[k][2])]
    /\ pc' = "returned"
    /\ UNCHANGED <<clock, services, today, end_date, idx, name,
                   schedule_desc, interval, current, collection_dates, events,
                   runs, prev, arg>>

-----------------------------------------------------------------------------
(* Specifications *)

InitLocals ==
    /\ clock = Day0
    /\ pc = "idle"
    /\ today = 0
    /\ end_date = 0
    /\ idx = 0
    /\ name = PyNone
    /\ schedule_desc = PyNone
    /\ interval = PyNone
    /\ current = 0
    /\ collection_dates = <<>>
    /\ events = <<>>
    /\ runs = 0
    /\ prev = [today |-> 0, events |-> <<>>]

\* requests for the calendar while the clock runs
Init ==
    /\ InitLocals
    /\ services \in ServiceLists
    /\ arg = Unset
    /\ ret = Unset

NextBuild ==
    \/ build_calendar_enter
    \/ for_skip
    \/ for_raise
    \/ for_expand
    \/ while_step
    \/ emit
    \/ for_exit

Next ==
    \/ NextBuild
    \/ next_request
    \/ Tick

Spec == Init /\ [][Next]_vars

\* one invocation on one record; the interpreter keeps running the call
InitExpand ==
    /\ InitLocals
    /\ services \in {<<r>> : r \in ExpandRecords}
    /\ arg = Unset
    /\ ret = Unset

SpecExpand == InitExpand /\ [][NextBuild]_vars /\ WF_vars(NextBuild)

\* parse_interval_days called on a description
InitClassify ==
    /\ InitLocals
    /\ services = <<>>
    /\ arg \in {PyStr(d) : d \in Descriptions}
    /\ ret = Unset

NextClassify == call_parse_interval_days

SpecClassify == InitClassify /\ [][NextClassify]_vars

\* make_uid called on two (service, date) pairs
InitUid ==
    /\ InitLocals
    /\ services = <<>>
    /\ arg \in {<<a, b>> : a \in UidArgs, b \in UidArgs}
    /\ ret = Unset

NextUid == call_make_uid

SpecUid == InitUid /\ [][NextUid]_vars

-----------------------------------------------------------------------------
(* Expected results, stated without the loop *)

\* the elements of a finite set of integers in increasing order
RECURSIVE SortedSeq(_)
SortedSeq(S) ==
    IF S = {} THEN <<>>
    ELSE LET m == CHOOSE x \in S : \A y \in S : x <= y
         IN  <<m>> \o SortedSeq(S \ {m})

\* the dates anchor + k * step, k >= 0, within [lo, hi]
SeriesInWindow(anchor, step, lo, hi) ==
    {d \in lo..hi : d >= anchor /\ (d - anchor) % step = 0}

ExpectedDates(anchor, iv, lo, hi) ==
    IF iv.t = "none"
    THEN (IF lo <= anchor /\ anchor <= hi THEN <<anchor>> ELSE <<>>)
    ELSE SortedSeq(SeriesInWindow(anchor, iv.v, lo, hi))

HasBadDate(service) ==
    LET d == Get(service, "hso_nextcollection", PyNone)
    IN  \/ d.t = "none"
        \/ d = PyStr(<<>>)
        \/ dateparse_date(d).t = "exc"

ExpectedOfRecord(service, lo, hi) ==
    IF HasBadDate(service) THEN <<>>
    ELSE LET nm == Get(service, "hso_servicename", PyStr(StrUnknown))
             a  == dateparse_date(service["hso_nextcollection"]).v
             iv == parse_interval_days(
                       Get(service, "hso_scheduledescription", PyStr(<<>>)))
             ds == ExpectedDates(a, iv, lo, hi)
         IN  [k \in DOMAIN ds |-> Event(nm, ds[k])]

RECURSIVE ExpectedEvents(_, _, _)
ExpectedEvents(svcs, lo, hi) ==
    IF svcs = <<>> THEN <<>>
    ELSE ExpectedOfRecord(Head(svcs), lo, hi) \o ExpectedEvents(Tail(svcs), lo, hi)

\* the anchor date of the record being expanded
Anchor == dateparse_date(Get(services[idx], "hso_nextcollection", PyNone)).v

Returned == pc = "returned"

-----------------------------------------------------------------------------
(* Claims *)

\* C1: a description matching "every N week(s)" (any case) that holds none
\* of the fortnight phrases is classified as N*7 days (stated for N >= 1;
\* N = 0 would ask for an interval of 0 days).
C1_EveryNWeeks ==
    (/\ Returned
     /\ ReSearch(Lower(arg.v))
     /\ ~fortnight_rule(Lower(arg.v))
     /\ DigitsToInt(ReGroup1(Lower(arg.v))) >= 1)
        => ret = PyInt(DigitsToInt(ReGroup1(Lower(arg.v))) * 7)

\* C2: a description that contains "fortnight" in any letter case is
\* classified as 14 days, whatever week phrases it also contains.
C2_FortnightWins ==
    (Returned /\ Contains(Lower(arg.v), StrFortnight)) => ret = PyInt(14)

C2_Witness ==
    /\ Returned
    /\ Contains(arg.v, <<"F","o","r","t","N","i","g","h","t">>)
    /\ Contains(Lower(arg.v), StrWeekly)
    /\ ReSearch(Lower(arg.v))
    /\ DigitsToInt(ReGroup1(Lower(arg.v))) = 3
    /\ ret = PyInt(14)

\* C3: with a repeat interval I, the dates collected for a record are
\* exactly the dates anchor + k*I (k >= 0) within [today, end_date], each
\* once, in strictly increasing order.
C3_SeriesFromAnchor ==
    (pc = "emit" /\ interval.t = "int") =>
        /\ \A j, k \in DOMAIN collection_dates :
               j < k => collection_dates[j] < collection_dates[k]
        /\ {collection_dates[k] : k \in DOMAIN collection_dates}
               = SeriesInWindow(Anchor, interval.v, today, end_date)

C3_Witness ==
    /\ pc = "emit"
    /\ interval = PyInt(14)
    /\ Anchor = today - 14
    /\ Len(collection_dates) = 13
    /\ collection_dates[1] = today
    /\ collection_dates[2] = today + 14

\* C4: without a repeat interval a record yields the anchor date alone if
\* today <= anchor <= end_date and nothing otherwise; with any interval an
\* anchor after end_date yields nothing.
C4_SingleOccurrence ==
    (pc = "emit") =>
        /\ interval.t = "none" =>
               collection_dates =
                   IF today <= Anchor /\ Anchor <= end_date
                   THEN <<Anchor>> ELSE <<>>
        /\ Anchor > end_date => collection_dates = <<>>

C4_Witness ==
    /\ pc = "emit"
    /\ interval.t = "none"
    /\ Anchor = today
    /\ collection_dates = <<today>>

\* C5: build_calendar never raises, whatever the field values of a record.
C5_NeverRaises == pc # "raised"

C7_UniqueUids ==
    \A j, k \in DOMAIN events : j # k => events[j].uid # events[k].uid

\* C8: make_uid gives equal pairs equal uids and hashes different strings
\* for different (service name, date) pairs.
C8_KeyInjective ==
    Returned =>
        /\ arg[1] = arg[2] => ret[1] = ret[2]
        /\ arg[1] # arg[2] => ret[1].md5 # ret[2].md5

C8_Witness ==
    /\ Returned
    /\ arg[1] = <<PyStr(<<"R">>), Day0 + 1>>
    /\ arg[2] = <<PyStr(<<"R", "-">>), Day0 + 31>>
    /\ ret[1] # ret[2]

\* C9 as stated: two invocations on the same service records produce the
\* same events whenever they run.
C9_SameEventsWhenever ==
    (pc = "done" /\ runs >= 2) => events = prev.events

\* C9 as amended: two invocations on the same service records that read the
\* same day from the clock on entry produce the same events.
C9_SameEventsSameDay ==
    (pc = "done" /\ runs >= 2 /\ prev.today = today) => events = prev.events

C9_Witness ==
    /\ pc = "done"
    /\ runs = 2
    /\ prev.today = today
    /\ clock > today
    /\ Len(events) > 0
    /\ events = prev.events

\* C10: the interval is None or strictly positive, the expansion of every
\* record ends, and a record yields at most
\* (end_date - today) \div interval + 1 dates.
C10_Terminates ==
    /\ [](pc = "while" =>
            (interval.t = "none" \/ (interval.t = "int" /\ interval.v > 0)))
    /\ <>(pc \in {"done", "raised"})
    /\ []((pc = "emit" /\ interval.t = "int" /\ interval.v > 0) =>
            Len(collection_dates) <= (end_date - today) \div interval.v + 1)

C10_Witness ==
    /\ pc = "done"
    /\ schedule_desc = DescEvery0Weeks
    /\ Len(events) = 26
    /\ events[26].dtstart = end_date - 5

====
